---- MODULE Spec2Model ----
(***************************************************************************)
(* Model of the transactional state cache of starknet_in_rust:             *)
(* StateCache (src/state/state_chache.rs), the Starknet facade             *)
(* (src/lib.rs), the scopes of cached states they run on, and the helpers  *)
(* that decode syscall arguments from the VM memory (src/utils.rs).        *)
(***************************************************************************)
EXTENDS Integers, Sequences, FiniteSets, TLC

VARIABLES
    heap,         \* storage cell -> the StateCache value held in it
    href,         \* binding (state_cache, other_state_cache) -> the cell it names
    cloned_from,  \* binding -> the binding it was cloned from, or "none"
    last,         \* the last operation: its name, target binding and result (and, for a
                  \* successful set_initial_values, the three maps supplied; for a
                  \* merge, the other cache as it was at the call; for a syscall, the
                  \* gas balance, the cost and the gas of the response; for a return
                  \* of the facade, what tx.execute returned)
    pre,          \* the StateCache of the target just before the last operation
    seeds_ok,     \* binding -> number of set_initial_values calls that returned Ok
    touched,      \* binding -> a write of an entry or a recording read was made on it
    fetches,      \* binding -> cell -> number of times the StateReader was asked for it
    steps,        \* number of operations performed
    pc,           \* the Starknet facade: "idle", "running" (in tx.execute) or "done";
                  \* in a merge experiment, the merges done on each working cache
    api,          \* the facade function that was called
    scopes,       \* the open entry-point scopes of tx.execute, outermost first: the
                  \* cell of the scope's cache, the parent's cache at the invocation,
                  \* the writes made in the scope, the writes of the nested calls
                  \* merged into it so far, and the ledger at its invocation
    caller_before,\* the caller's StateCache when the facade function was called
    result,       \* what the facade function returned
    resources,    \* the resource ledger: syscall cost charged so far in the run
    calls,        \* number of facade calls made
    memory        \* the VM memory the syscall arguments are decoded from:
                  \* offset -> what the cell holds

cachevars == <<cloned_from, seeds_ok, touched, fetches, steps>>

txvars == <<pc, api, scopes, caller_before, result, resources, calls>>

vars == <<heap, href, last, pre, cachevars, txvars, memory>>

(* ------------------------------ bounds --------------------------------- *)

\* Number of operations in one run.
MaxSteps == 3

\* Deepest nesting of contract calls below the outermost entry point.
MaxDepth == 1

\* Number of state-writing syscalls the ledger meters in one run.
MaxResources == 2

\* Number of facade calls in one run.
MaxCalls == 2

\* Gas a transaction starts with.
MaxGas == 2

\* Number of cells of the VM memory segment the syscall arguments lie in.
MemSize == 3

\* Width of usize in bits (64 on the targets of the build, scaled down).
UsizeBits == 3

(* --------------------------- value domains ----------------------------- *)

\* contract addresses (BigInt keys)
Address == {1, 2}

\* storage keys ([u8; 32])
StorageKey == {1}

\* (contract_address, key)
StorageEntry == Address \X StorageKey

\* class hashes (Vec<u8>), e.g. b"pedersen" and b"sha-3"
ClassHashValue == {"pedersen", "sha-3"}

\* nonces (BigInt)
NonceValue == {0, 1}

\* storage values (BigInt)
StorageValue == {5, 9}

(* ------------------------- VM memory, utils.rs ------------------------- *)

\* usize::MAX
usize_max == 2 ^ UsizeBits - 1

\* offsets of the memory segment (Relocatable with a fixed segment_index)
VmAddr == 0 .. MemSize - 1

\* the BigInt values a cell can hold: negative, zero, usize::MAX and the
\* first value beyond it
IntValue == {-1, 0, usize_max, usize_max + 1}

\* what a memory cell holds: nothing, an integer or a relocatable
MemValue ==
    {[kind |-> "none", val |-> 0]}
        \cup {[kind |-> "int", val |-> v] : v \in IntValue}
        \cup {[kind |-> "rel", val |-> 1]}

\* a VM with no memory inserted
EmptyMemory == [a \in VmAddr |-> [kind |-> "none", val |-> 0]]

\* the cell at an offset; offsets past the segment hold nothing
cell_at(vm, addr) ==
    IF addr \in DOMAIN vm THEN vm[addr] ELSE [kind |-> "none", val |-> 0]

\* VirtualMachine::get_integer: Err unless the cell holds an integer
vm_get_integer(vm, addr) ==
    IF cell_at(vm, addr).kind = "int"
    THEN [res |-> "Ok", val |-> cell_at(vm, addr).val]
    ELSE [res |-> "Err", val |-> 0]

\* VirtualMachine::get_relocatable: Err unless the cell holds a relocatable
vm_get_relocatable(vm, addr) ==
    IF cell_at(vm, addr).kind = "rel"
    THEN [res |-> "Ok", val |-> cell_at(vm, addr).val]
    ELSE [res |-> "Err", val |-> 0]

\* VirtualMachine::get_integer_range: get_integer of addr, addr + 1, ...,
\* addr + size - 1 in this order, Err at the first one that fails
vm_get_integer_range(vm, addr, size) ==
    IF \A i \in 0 .. size - 1 : vm_get_integer(vm, addr + i).res = "Ok"
    THEN [res |-> "Ok", val |-> [i \in 1 .. size |-> vm_get_integer(vm, addr + i - 1).val]]
    ELSE [res |-> "Err", val |-> <<>>]

\* BigInt::to_usize (num_traits::ToPrimitive): None unless the value fits
to_usize(bigint) ==
    IF 0 <= bigint /\ bigint <= usize_max THEN <<bigint>> ELSE <<>>

\* A faulty get_integer that reports a failed read as an overflow.
get_integer_overflow_on_fault(vm, syscall_ptr) ==
    IF vm_get_integer(vm, syscall_ptr).res # "Ok"
        \/ to_usize(vm_get_integer(vm, syscall_ptr).val) = <<>>
    THEN [res |-> "BigintToUsizeFail", val |-> 0]
    ELSE [res |-> "Ok", val |-> to_usize(vm_get_integer(vm, syscall_ptr).val)[1]]

get_integer(vm, syscall_ptr) ==
    IF vm_get_integer(vm, syscall_ptr).res # "Ok"
    THEN [res |-> "SegmentationFault", val |-> 0]
    ELSE IF to_usize(vm_get_integer(vm, syscall_ptr).val) = <<>>
    THEN [res |-> "BigintToUsizeFail", val |-> 0]
    ELSE [res |-> "Ok", val |-> to_usize(vm_get_integer(vm, syscall_ptr).val)[1]]

get_big_int(vm, syscall_ptr) ==
    IF vm_get_integer(vm, syscall_ptr).res # "Ok"
    THEN [res |-> "SegmentationFault", val |-> 0]
    ELSE [res |-> "Ok", val |-> vm_get_integer(vm, syscall_ptr).val]

get_relocatable(vm, syscall_ptr) ==
    IF vm_get_relocatable(vm, syscall_ptr).res # "Ok"
    THEN [res |-> "SegmentationFault", val |-> 0]
    ELSE [res |-> "Ok", val |-> vm_get_relocatable(vm, syscall_ptr).val]

bigint_to_usize(bigint) ==
    IF to_usize(bigint) = <<>>
    THEN [res |-> "BigintToUsizeFail", val |-> 0]
    ELSE [res |-> "Ok", val |-> to_usize(bigint)[1]]

get_integer_range(vm, addr, size) ==
    IF vm_get_integer_range(vm, addr, size).res # "Ok"
    THEN [res |-> "SegmentationFault", val |-> <<>>]
    ELSE [res |-> "Ok", val |-> vm_get_integer_range(vm, addr, size).val]

(* ------------------------------ HashMap -------------------------------- *)

\* HashMap::new()
EmptyMap == <<>>

\* all HashMaps with keys in K and values in V
Maps(K, V) == UNION {[D -> V] : D \in SUBSET K}

\* HashMap::is_empty
is_empty(m) == DOMAIN m = {}

\* A faulty membership test that never finds a key.
contains_key_never(m, k) == FALSE

\* HashMap::contains_key
contains_key(m, k) == k \in DOMAIN m

\* HashMap::get: Option as a sequence, <<>> is None and <<v>> is Some(v)
get(m, k) == IF k \in DOMAIN m THEN <<m[k]>> ELSE <<>>

\* A faulty extend that keeps the receiver's value on a key collision.
extend_keep(m, o) ==
    [k \in DOMAIN m \cup DOMAIN o |-> IF k \in DOMAIN m THEN m[k] ELSE o[k]]

\* HashMap::extend(other.clone()): insert every entry of o, overwriting
extend(m, o) ==
    [k \in DOMAIN m \cup DOMAIN o |-> IF k \in DOMAIN o THEN o[k] ELSE m[k]]

(* ----------------------------- StateCache ------------------------------ *)

\* StateCache::new()
new ==
    [class_hash_initial_values |-> EmptyMap,
     nonce_initial_values      |-> EmptyMap,
     storage_initial_values    |-> EmptyMap,
     class_hash_writes         |-> EmptyMap,
     nonce_writes              |-> EmptyMap,
     storage_writes            |-> EmptyMap]

\* A faulty lookup that prefers the initial value to the written one.
get_nonce_initial_first(self, contract_address) ==
    IF contains_key(self.nonce_initial_values, contract_address)
    THEN get(self.nonce_initial_values, contract_address)
    ELSE get(self.nonce_writes, contract_address)

get_class_hash(self, contract_address) ==
    IF contains_key(self.class_hash_writes, contract_address)
    THEN get(self.class_hash_writes, contract_address)
    ELSE get(self.class_hash_initial_values, contract_address)

get_nonce(self, contract_address) ==
    IF contains_key(self.nonce_writes, contract_address)
    THEN get(self.nonce_writes, contract_address)
    ELSE get(self.nonce_initial_values, contract_address)

\* A faulty lookup that does not look at the initial values.
get_storage_writes_only(self, storage_entry) ==
    get(self.storage_writes, storage_entry)

get_storage(self, storage_entry) ==
    IF contains_key(self.storage_writes, storage_entry)
    THEN get(self.storage_writes, storage_entry)
    ELSE get(self.storage_initial_values, storage_entry)

\* A faulty merge that replaces the write mappings by the ones of the other
\* cache.
update_writes_from_other_replace(self, other) ==
    [self EXCEPT
        !.class_hash_writes = other.class_hash_writes,
        !.nonce_writes      = other.nonce_writes,
        !.storage_writes    = other.storage_writes]

\* A faulty merge that also takes over the initial values of the other cache.
update_writes_from_other_initial(self, other) ==
    [self EXCEPT
        !.class_hash_initial_values = extend(@, other.class_hash_initial_values),
        !.nonce_initial_values      = extend(@, other.nonce_initial_values),
        !.storage_initial_values    = extend(@, other.storage_initial_values),
        !.class_hash_writes = extend(@, other.class_hash_writes),
        !.nonce_writes      = extend(@, other.nonce_writes),
        !.storage_writes    = extend(@, other.storage_writes)]

update_writes_from_other(self, other) ==
    [self EXCEPT
        !.class_hash_writes = extend(@, other.class_hash_writes),
        !.nonce_writes      = extend(@, other.nonce_writes),
        !.storage_writes    = extend(@, other.storage_writes)]

\* A faulty update that drops the nonces it is given.
update_writes_no_nonce(self, address_to_class_hash, address_to_nonce, storage_updates) ==
    [self EXCEPT
        !.class_hash_writes = extend(@, address_to_class_hash),
        !.storage_writes    = extend(@, storage_updates)]

update_writes(self, address_to_class_hash, address_to_nonce, storage_updates) ==
    [self EXCEPT
        !.class_hash_writes = extend(@, address_to_class_hash),
        !.nonce_writes      = extend(@, address_to_nonce),
        !.storage_writes    = extend(@, storage_updates)]

\* A faulty guard that looks at the three write mappings only.
all_empty_writes_only(self) ==
    /\ is_empty(self.class_hash_writes)
    /\ is_empty(self.nonce_writes)
    /\ is_empty(self.storage_writes)

\* the guard of set_initial_values: all six mappings are empty
all_empty(self) ==
    /\ is_empty(self.class_hash_initial_values)
    /\ is_empty(self.class_hash_writes)
    /\ is_empty(self.nonce_initial_values)
    /\ is_empty(self.nonce_writes)
    /\ is_empty(self.storage_initial_values)
    /\ is_empty(self.storage_writes)

\* A faulty seed that also loads the three initial mappings.
set_initial_values_both(self, address_to_class_hash, address_to_nonce, storage_updates) ==
    IF ~all_empty(self)
    THEN [cache |-> self, res |-> "StateCacheAlreadyInitialized"]
    ELSE [cache |-> [update_writes(self, address_to_class_hash,
                                   address_to_nonce, storage_updates)
                        EXCEPT !.class_hash_initial_values = address_to_class_hash,
                               !.nonce_initial_values = address_to_nonce,
                               !.storage_initial_values = storage_updates],
          res   |-> "Ok"]

\* A faulty seed that does not look at the cache before loading it.
set_initial_values_unchecked(self, address_to_class_hash, address_to_nonce, storage_updates) ==
    [cache |-> update_writes(self, address_to_class_hash,
                             address_to_nonce, storage_updates),
     res   |-> "Ok"]

\* set_initial_values: the cache it leaves and the Result it returns
set_initial_values(self, address_to_class_hash, address_to_nonce, storage_updates) ==
    IF ~all_empty(self)
    THEN [cache |-> self, res |-> "StateCacheAlreadyInitialized"]
    ELSE [cache |-> update_writes(self, address_to_class_hash,
                                  address_to_nonce, storage_updates),
          res   |-> "Ok"]

\* A faulty report that leaves out the addresses of the storage writes.
get_accessed_contract_addresses_no_storage(self) ==
    (DOMAIN self.class_hash_writes) \cup (DOMAIN self.nonce_writes)

get_accessed_contract_addresses(self) ==
    (DOMAIN self.class_hash_writes)
        \cup (DOMAIN self.nonce_writes)
        \cup {x[1] : x \in DOMAIN self.storage_writes}

\* #[derive(Clone)]: every field is cloned into a new value
Clone(self) ==
    [class_hash_initial_values |-> self.class_hash_initial_values,
     nonce_initial_values      |-> self.nonce_initial_values,
     storage_initial_values    |-> self.storage_initial_values,
     class_hash_writes         |-> self.class_hash_writes,
     nonce_writes              |-> self.nonce_writes,
     storage_writes            |-> self.storage_writes]

(* ------------------------- cells and bindings -------------------------- *)

\* the two StateCache objects of a run, as in the unit tests of
\* state_chache.rs: state_cache and other_state_cache
Binding == {"state_cache", "other_state_cache"}

\* storage cells that hold StateCache values
Cell == {1, 2}

\* A faulty clone that shares the source's storage instead of copying it.
clone_cell_shared(src_cell, dst_cell) == src_cell

\* the cell a clone is constructed in: the storage of the binding that
\* receives it, never the source's
clone_cell(src_cell, dst_cell) == dst_cell

\* the cell that belongs to a binding
own_cell(b) ==
    CASE b = "state_cache" -> 1
      [] b = "other_state_cache" -> 2
      [] b = "state" -> 1
      [] b = "state_copy" -> 2

\* the StateCache a binding names
cache_of(b) == heap[href[b]]

(* ---------------------------- StateReader ------------------------------ *)

\* The underlying reader of the cached state: address 1 is deployed with
\* class hash "pedersen", nonces default to 0, and storage cell (1, 1) holds
\* 5 while every other cell reads as 0.
reader_class_hash_at(a) == IF a = 1 THEN <<"pedersen">> ELSE <<>>

reader_nonce_at(a) == <<0>>

reader_storage_at(e) == IF e = <<1, 1>> THEN <<5>> ELSE <<0>>

\* record_initial: insert into an initial mapping only if the key is absent
record_initial(m, k, v) ==
    IF contains_key(m, k) THEN m ELSE extend(m, [x \in {k} |-> v])

\* the cells a cached state reads: a quantity and its key
ReadCell ==
    ({"class_hash", "nonce"} \X Address) \cup ({"storage"} \X StorageEntry)

\* the values a cell of a quantity can hold
CellValue(c) ==
    CASE c[1] = "class_hash" -> ClassHashValue
      [] c[1] = "nonce" -> NonceValue
      [] c[1] = "storage" -> StorageValue

\* StateCache record_initial(key, value) on the initial mapping of the
\* quantity of cell c
record_initial_cell(self, c, v) ==
    CASE c[1] = "class_hash" ->
            [self EXCEPT !.class_hash_initial_values = record_initial(@, c[2], v)]
      [] c[1] = "nonce" ->
            [self EXCEPT !.nonce_initial_values = record_initial(@, c[2], v)]
      [] c[1] = "storage" ->
            [self EXCEPT !.storage_initial_values = record_initial(@, c[2], v)]

\* CachedState::get_class_hash_at: the cache first; on a miss the reader is
\* asked (fetch) and its value is recorded as initial value; an unknown
\* address is NotDeployed. val is the value returned.
get_class_hash_at(self, a) ==
    IF get_class_hash(self, a) # <<>>
    THEN [cache |-> self, res |-> "Ok", val |-> get_class_hash(self, a), fetch |-> FALSE]
    ELSE IF reader_class_hash_at(a) = <<>>
    THEN [cache |-> self, res |-> "NotDeployed", val |-> <<>>, fetch |-> TRUE]
    ELSE [cache |-> [self EXCEPT !.class_hash_initial_values =
                        record_initial(@, a, reader_class_hash_at(a)[1])],
          res |-> "Ok", val |-> reader_class_hash_at(a), fetch |-> TRUE]

\* CachedState::get_nonce_at
get_nonce_at(self, a) ==
    IF get_nonce(self, a) # <<>>
    THEN [cache |-> self, res |-> "Ok", val |-> get_nonce(self, a), fetch |-> FALSE]
    ELSE [cache |-> [self EXCEPT !.nonce_initial_values =
                        record_initial(@, a, reader_nonce_at(a)[1])],
          res |-> "Ok", val |-> reader_nonce_at(a), fetch |-> TRUE]

\* CachedState::get_storage_at
get_storage_at(self, e) ==
    IF get_storage(self, e) # <<>>
    THEN [cache |-> self, res |-> "Ok", val |-> get_storage(self, e), fetch |-> FALSE]
    ELSE [cache |-> [self EXCEPT !.storage_initial_values =
                        record_initial(@, e, reader_storage_at(e)[1])],
          res |-> "Ok", val |-> reader_storage_at(e), fetch |-> TRUE]

(* ------------------------------ inputs --------------------------------- *)

\* number of entries of a HashMap
len(m) == Cardinality(DOMAIN m)

\* a HashMap with the one entry (k, v)
Single(k, v) == [x \in {k} |-> v]

\* The triples (address_to_class_hash, address_to_nonce, storage_updates)
\* handed to update_writes and set_initial_values: the empty one, the ones
\* with one entry in each map at one address (the shape of the snapshots in
\* the tests of state_chache.rs, with the values of the first or of the
\* second snapshot), and the single-entry ones that carry a value of the
\* second snapshot.
Snapshots ==
    {s \in Maps(Address, {"sha-3"}) \X Maps(Address, {1})
            \X Maps(StorageEntry, {9}) :
        len(s[1]) + len(s[2]) + len(s[3]) <= 1}
    \cup {<<Single(a, x[1]), Single(a, x[2]), Single(<<a, 1>>, x[3])>> :
            a \in Address, x \in {<<"pedersen", 0, 5>>, <<"sha-3", 1, 9>>}}

(* ------------------------------ actions -------------------------------- *)

Init ==
    /\ heap = [c \in Cell |-> new]
    /\ href = [b \in Binding |-> own_cell(b)]
    /\ cloned_from = [b \in Binding |-> "none"]
    /\ last = [op |-> "new", target |-> "state_cache", res |-> "Ok"]
    /\ pre = new
    /\ seeds_ok = [b \in Binding |-> 0]
    /\ touched = [b \in Binding |-> FALSE]
    /\ fetches = [b \in Binding |-> [c \in ReadCell |-> 0]]
    /\ steps = 0
    /\ pc = "idle"
    /\ api = "none"
    /\ scopes = <<>>
    /\ caller_before = new
    /\ result = [kind |-> "none"]
    /\ resources = 0
    /\ calls = 0
    /\ memory = EmptyMemory

\* t.set_initial_values(&s[1], &s[2], &s[3])
SetInitialValues(t, s) ==
    /\ steps < MaxSteps
    /\ LET r == set_initial_values(cache_of(t), s[1], s[2], s[3]) IN
        /\ heap' = [heap EXCEPT ![href[t]] = r.cache]
        /\ last' = [op |-> "set_initial_values", target |-> t, res |-> r.res,
                    args |-> IF r.res = "Ok" THEN s ELSE <<>>]
        /\ seeds_ok' = [seeds_ok EXCEPT ![t] = IF r.res = "Ok" THEN @ + 1 ELSE @]
    /\ pre' = cache_of(t)
    /\ steps' = steps + 1
    /\ UNCHANGED <<memory, href, cloned_from, touched, fetches, txvars>>

\* t.update_writes(&s[1], &s[2], &s[3])
UpdateWrites(t, s) ==
    /\ steps < MaxSteps
    /\ heap' = [heap EXCEPT ![href[t]] = update_writes(cache_of(t), s[1], s[2], s[3])]
    /\ last' = [op |-> "update_writes", target |-> t, res |-> "Ok"]
    /\ pre' = cache_of(t)
    /\ touched' = [touched EXCEPT ![t] = @ \/ len(s[1]) + len(s[2]) + len(s[3]) > 0]
    /\ steps' = steps + 1
    /\ UNCHANGED <<memory, href, cloned_from, seeds_ok, fetches, txvars>>

\* t.update_writes_from_other(&o)
UpdateWritesFromOther(t, o) ==
    /\ steps < MaxSteps
    /\ t # o
    /\ heap' = [heap EXCEPT ![href[t]] = update_writes_from_other(cache_of(t), cache_of(o))]
    /\ last' = [op |-> "update_writes_from_other", target |-> t, res |-> "Ok",
                other |-> cache_of(o)]
    /\ pre' = cache_of(t)
    /\ touched' = [touched EXCEPT ![t] = @ \/ get_accessed_contract_addresses(cache_of(o)) # {}]
    /\ steps' = steps + 1
    /\ UNCHANGED <<memory, href, cloned_from, seeds_ok, fetches, txvars>>

\* let d = s.clone()
CloneState(s, d) ==
    /\ steps < MaxSteps
    /\ s # d
    /\ LET c == clone_cell(href[s], own_cell(d)) IN
        /\ heap' = [heap EXCEPT ![c] = Clone(cache_of(s))]
        /\ href' = [href EXCEPT ![d] = c]
    /\ cloned_from' = [cloned_from EXCEPT ![d] = s]
    /\ last' = [op |-> "clone", target |-> d, res |-> "Ok"]
    /\ pre' = cache_of(d)
    /\ seeds_ok' = [seeds_ok EXCEPT ![d] = seeds_ok[s]]
    /\ touched' = [touched EXCEPT ![d] = touched[s]]
    /\ fetches' = [fetches EXCEPT ![d] = fetches[s]]
    /\ steps' = steps + 1
    /\ UNCHANGED <<txvars, memory>>

\* a read of cell c of the cached state on t: get_class_hash_at, get_nonce_at
\* or get_storage_at, which asks the reader and records its value on a miss
ReadThrough(op, t, c, r) ==
    /\ steps < MaxSteps
    /\ heap' = [heap EXCEPT ![href[t]] = r.cache]
    /\ last' = [op |-> op, target |-> t, res |-> r.res,
                cell |-> c, val |-> r.val, fetch |-> r.fetch]
    /\ pre' = cache_of(t)
    /\ touched' = [touched EXCEPT ![t] = @ \/ r.cache # cache_of(t)]
    /\ fetches' = [fetches EXCEPT ![t][c] = IF r.fetch THEN @ + 1 ELSE @]
    /\ steps' = steps + 1
    /\ UNCHANGED <<memory, href, cloned_from, seeds_ok, txvars>>

GetClassHashAt(t, a) ==
    ReadThrough("get_class_hash_at", t, <<"class_hash", a>>, get_class_hash_at(cache_of(t), a))

GetNonceAt(t, a) ==
    ReadThrough("get_nonce_at", t, <<"nonce", a>>, get_nonce_at(cache_of(t), a))

GetStorageAt(t, e) ==
    ReadThrough("get_storage_at", t, <<"storage", e>>, get_storage_at(cache_of(t), e))

Next ==
    \/ \E t \in Binding, s \in Snapshots : SetInitialValues(t, s)
    \/ \E t \in Binding, s \in Snapshots : UpdateWrites(t, s)
    \/ \E t \in Binding, o \in Binding : UpdateWritesFromOther(t, o)
    \/ \E s \in Binding, d \in Binding : CloneState(s, d)
    \/ \E t \in Binding, a \in Address : GetClassHashAt(t, a)
    \/ \E t \in Binding, a \in Address : GetNonceAt(t, a)
    \/ \E t \in Binding, e \in StorageEntry : GetStorageAt(t, e)

Spec == Init /\ [][Next]_vars

(* --------------------------- Starknet facade --------------------------- *)

\* the functions of Starknet in lib.rs
Api == {"call_contract", "estimate_fee", "execute_tx", "simulate_tx"}

\* the caller's CachedState and the clone the facade takes of it
TxBinding == {"state", "state_copy"}

\* the cell of the scope at a depth of the call stack: depth 1 is the
\* top-level scope of the transaction, deeper ones are nested calls
scope_cell(depth) == Cardinality(TxBinding) + depth

\* the cells of a facade call: the two bindings', the one of the
\* transaction's top-level scope and one per nested scope
TxCell == 1..scope_cell(1 + MaxDepth)

\* A faulty facade that hands the caller's own state to every execution.
execute_on_state(f) == "state"

\* the binding whose state tx.execute runs against: the caller's state for
\* execute_tx, the clone state_copy for the other three
execute_on(f) == IF f = "execute_tx" THEN "state" ELSE "state_copy"

\* whether the facade function clones the state before executing
takes_clone(f) == f # "execute_tx"

\* A faulty call_contract that answers a missing call_info with no return data.
call_contract_default(exec) ==
    IF ~exec.ok THEN [kind |-> "Err", error |-> exec.error]
    ELSE IF exec.info.call_info = <<>>
         THEN [kind |-> "Ok", retdata |-> <<>>]
         ELSE [kind |-> "Ok", retdata |-> exec.info.call_info[1]]

\* call_contract: retdata of the call_info, "Empty CallInfo." without one,
\* the execution's error when tx.execute failed
call_contract(exec) ==
    IF ~exec.ok THEN [kind |-> "Err", error |-> exec.error]
    ELSE IF exec.info.call_info = <<>>
         THEN [kind |-> "Err", error |-> "Empty CallInfo."]
         ELSE [kind |-> "Ok", retdata |-> exec.info.call_info[1]]

\* estimate_fee: the actual_fee of the execution
estimate_fee(exec) ==
    IF ~exec.ok THEN [kind |-> "Err", error |-> exec.error]
    ELSE [kind |-> "Ok", fee |-> exec.info.actual_fee]

\* execute_tx: the TransactionExecutionInfo of the execution
execute_tx(exec) ==
    IF ~exec.ok THEN [kind |-> "Err", error |-> exec.error]
    ELSE [kind |-> "Ok", info |-> exec.info]

\* simulate_tx: the TransactionExecutionInfo and its actual_fee
simulate_tx(exec) ==
    IF ~exec.ok THEN [kind |-> "Err", error |-> exec.error]
    ELSE [kind |-> "Ok", info |-> exec.info, fee |-> exec.info.actual_fee]

\* what facade function f returns for the outcome exec of tx.execute
facade_result(f, exec) ==
    CASE f = "call_contract" -> call_contract(exec)
      [] f = "estimate_fee" -> estimate_fee(exec)
      [] f = "execute_tx" -> execute_tx(exec)
      [] f = "simulate_tx" -> simulate_tx(exec)

(* ----------------------------- tx.execute ------------------------------ *)

\* the three write mappings with no entry
NoWrites == <<EmptyMap, EmptyMap, EmptyMap>>

\* The state-writing operations of a transaction, each as the triple of maps
\* it writes: a deploy sets the class hash of the undeployed address 2, the
\* account at address 1 has its nonce set, a storage_write sets any cell.
Writes ==
    {<<Single(2, h), EmptyMap, EmptyMap>> : h \in ClassHashValue}
    \cup {<<EmptyMap, Single(1, n), EmptyMap>> : n \in NonceValue}
    \cup {<<EmptyMap, EmptyMap, Single(e, v)>> : e \in StorageEntry, v \in StorageValue}

\* CachedState write of one cell: inserts into the write mapping only
write(self, w) ==
    [self EXCEPT
        !.class_hash_writes = extend(@, w[1]),
        !.nonce_writes      = extend(@, w[2]),
        !.storage_writes    = extend(@, w[3])]

\* CachedState::merge_child
merge_child(self, child) == update_writes_from_other(self, child)

\* the effects w2 laid over the effects w1
over(w1, w2) == <<extend(w1[1], w2[1]), extend(w1[2], w2[2]), extend(w1[3], w2[3])>>

\* the return data a succeeding entry point may produce
RetData == {<<>>, <<7>>}

\* the innermost open scope
top == scopes[Len(scopes)]

\* the heap once the innermost scope has returned: the scopes of the calls it
\* had made are gone
returned(h) == [c \in TxCell |-> IF c > top.cell THEN new ELSE h[c]]

\* the actual fee: one unit per unit of cost in the transaction's ledger
actual_fee(ledger) == ledger

\* the cost the ledger is charged for a syscall
syscall_cost(w) == 1

\* what the transaction has been charged: the ledger since its invocation
tx_ledger == resources - scopes[1].start

\* the gas balance of the running transaction
gas_left == MaxGas - tx_ledger

\* the deduction of a syscall's cost from the gas balance (u64, checked):
\* the response carries the balance after it, a cost above the balance is
\* OutOfGas
deduct_gas(balance, cost) ==
    IF cost > balance THEN [res |-> "OutOfGas"] ELSE [res |-> "Ok", gas |-> balance - cost]

InitTx ==
    /\ heap = [c \in TxCell |-> new]
    /\ href = [b \in TxBinding |-> own_cell(b)]
    /\ last = [op |-> "new", target |-> "state", res |-> "Ok"]
    /\ pre = new
    /\ cloned_from = [b \in Binding |-> "none"]
    /\ seeds_ok = [b \in Binding |-> 0]
    /\ touched = [b \in Binding |-> FALSE]
    /\ fetches = [b \in Binding |-> [c \in ReadCell |-> 0]]
    /\ steps = 0
    /\ pc = "idle"
    /\ api = "none"
    /\ scopes = <<>>
    /\ caller_before = new
    /\ result = [kind |-> "none"]
    /\ resources = 0
    /\ calls = 0
    /\ memory = EmptyMemory

\* a facade function is called: it clones the state unless it is execute_tx,
\* and tx.execute starts its outermost entry point in the top-level scope
\* over the state it is handed; that state is mutated only through this
\* scope, which is merged when the transaction succeeds and discarded when
\* it fails
CallFacade(f) ==
    /\ pc = "idle"
    /\ calls < MaxCalls
    /\ LET c == clone_cell(href["state"], own_cell("state_copy"))
           cloned == IF takes_clone(f)
                     THEN [heap EXCEPT ![c] = Clone(heap[href["state"]])]
                     ELSE heap
           handed == IF execute_on(f) = "state_copy" /\ takes_clone(f)
                     THEN c ELSE href[execute_on(f)]
           t == clone_cell(handed, scope_cell(1))
       IN
        /\ heap' = [cloned EXCEPT ![t] = Clone(cloned[handed])]
        /\ href' = IF takes_clone(f)
                   THEN [href EXCEPT !["state_copy"] = c]
                   ELSE href
        /\ scopes' = <<[cell |-> t, snap |-> cloned[handed], effects |-> NoWrites,
                        merged |-> NoWrites, start |-> resources]>>
    /\ caller_before' = heap[href["state"]]
    /\ api' = f
    /\ pc' = "running"
    /\ result' = [kind |-> "none"]
    /\ calls' = calls + 1
    /\ last' = [op |-> f, target |-> execute_on(f), res |-> "Ok"]
    /\ pre' = heap[href["state"]]
    /\ UNCHANGED <<memory, cachevars, resources>>

\* the running entry point issues a state-writing syscall
SyscallWrite(w) ==
    /\ pc = "running"
    /\ resources < MaxResources
    /\ deduct_gas(gas_left, syscall_cost(w)).res = "Ok"
    /\ heap' = [heap EXCEPT ![top.cell] = write(@, w)]
    /\ scopes' = [scopes EXCEPT ![Len(scopes)].effects = over(@, w)]
    /\ resources' = resources + syscall_cost(w)
    /\ last' = [op |-> "write", target |-> execute_on(api), res |-> "Ok",
                balance |-> gas_left, cost |-> syscall_cost(w),
                gas |-> deduct_gas(gas_left, syscall_cost(w)).gas]
    /\ pre' = heap[top.cell]
    /\ UNCHANGED <<memory, href, cachevars, pc, api, caller_before, result, calls>>

\* Pending -> Running of a nested call: a clone of the current scope
NestedCall ==
    /\ pc = "running"
    /\ Len(scopes) <= MaxDepth
    /\ LET c == clone_cell(top.cell, scope_cell(Len(scopes) + 1)) IN
        /\ heap' = [heap EXCEPT ![c] = Clone(heap[top.cell])]
        /\ scopes' = Append(scopes,
                [cell |-> c, snap |-> heap[top.cell], effects |-> NoWrites,
                 merged |-> NoWrites, start |-> resources])
    /\ last' = [op |-> "nested_call", target |-> execute_on(api), res |-> "Ok"]
    /\ pre' = heap[top.cell]
    /\ UNCHANGED <<memory, href, cachevars, pc, api, caller_before, result, resources, calls>>

\* Running -> Succeeded of a nested call: merged into its parent
NestedSucceed ==
    /\ pc = "running"
    /\ Len(scopes) > 1
    /\ LET parent == scopes[Len(scopes) - 1] IN
        /\ heap' = returned([heap EXCEPT ![parent.cell] = merge_child(@, heap[top.cell])])
        /\ scopes' = [SubSeq(scopes, 1, Len(scopes) - 1)
                        EXCEPT ![Len(scopes) - 1].effects = over(@, top.effects),
                               ![Len(scopes) - 1].merged = over(@, top.effects)]
        /\ pre' = heap[parent.cell]
    /\ last' = [op |-> "nested_succeed", target |-> execute_on(api), res |-> "Ok",
                earlier |-> scopes[Len(scopes) - 1].merged, child |-> top.effects]
    /\ UNCHANGED <<memory, href, cachevars, pc, api, caller_before, result, resources, calls>>

\* Running -> Reverted of a nested call: its scope is dropped, never merged
NestedRevert ==
    /\ pc = "running"
    /\ Len(scopes) > 1
    /\ scopes' = SubSeq(scopes, 1, Len(scopes) - 1)
    /\ last' = [op |-> "nested_revert", target |-> execute_on(api), res |-> "Reverted"]
    /\ pre' = top.snap
    /\ heap' = returned(heap)
    /\ UNCHANGED <<memory, href, cachevars, pc, api, caller_before, result, resources, calls>>

\* a syscall of a nested call costs more than the gas balance: no response,
\* the nested call fails with OutOfGas and its scope is dropped
NestedOutOfGas ==
    /\ pc = "running"
    /\ Len(scopes) > 1
    /\ {w \in Writes : deduct_gas(gas_left, syscall_cost(w)).res = "OutOfGas"} # {}
    /\ scopes' = SubSeq(scopes, 1, Len(scopes) - 1)
    /\ last' = [op |-> "nested_revert", target |-> execute_on(api), res |-> "OutOfGas"]
    /\ pre' = top.snap
    /\ heap' = returned(heap)
    /\ UNCHANGED <<memory, href, cachevars, pc, api, caller_before, result, resources, calls>>

\* tx.execute returns exec and the facade function returns what it makes of
\* it: the top-level scope is merged into the state tx.execute was handed
\* when the transaction succeeded, and is discarded, never merged, when it
\* failed
Return(exec) ==
    /\ pc = "running"
    /\ Len(scopes) = 1
    /\ heap' = IF exec.ok
               THEN [heap EXCEPT ![href[execute_on(api)]] = merge_child(@, heap[top.cell])]
               ELSE heap
    /\ result' = facade_result(api, exec)
    /\ pc' = "done"
    /\ last' = [op |-> "return", target |-> execute_on(api),
                res |-> IF exec.ok THEN "Ok" ELSE exec.error, exec |-> exec]
    /\ pre' = heap[href[execute_on(api)]]
    /\ UNCHANGED <<memory, href, cachevars, api, scopes, caller_before, resources, calls>>

\* the outermost entry point succeeds: its scope is merged and the facade
\* function returns
FinishOk(call_info) ==
    Return([ok |-> TRUE, error |-> "",
            info |-> [call_info |-> call_info, actual_fee |-> actual_fee(tx_ledger)]])

\* the outermost entry point reverts: its scope is discarded with all its
\* writes and the facade function returns the error
FinishErr ==
    Return([ok |-> FALSE, error |-> "Reverted"])

\* a syscall of the outermost entry point costs more than the gas balance:
\* its scope is discarded with all its writes and the transaction fails with
\* OutOfGas
FinishOutOfGas ==
    /\ pc = "running"
    /\ Len(scopes) = 1
    /\ {w \in Writes : deduct_gas(gas_left, syscall_cost(w)).res = "OutOfGas"} # {}
    /\ Return([ok |-> FALSE, error |-> "OutOfGas"])

\* the caller goes on to its next facade call: state_copy and the scopes of
\* the call are dropped with the function's frame
NextCall ==
    /\ pc = "done"
    /\ calls < MaxCalls
    /\ pc' = "idle"
    /\ api' = "none"
    /\ scopes' = <<>>
    /\ result' = [kind |-> "none"]
    /\ caller_before' = new
    /\ last' = [op |-> "idle", target |-> "state", res |-> "Ok"]
    /\ pre' = new
    /\ heap' = [c \in TxCell |-> IF c = href["state"] THEN heap[c] ELSE new]
    /\ UNCHANGED <<memory, href, cachevars, resources, calls>>

NextTx ==
    \/ \E f \in Api : CallFacade(f)
    \/ \E w \in Writes : SyscallWrite(w)
    \/ NestedCall
    \/ NestedSucceed
    \/ NestedRevert
    \/ \E ci \in {<<>>} \cup {<<rd>> : rd \in RetData} : FinishOk(ci)
    \/ FinishErr
    \/ NestedOutOfGas
    \/ FinishOutOfGas
    \/ NextCall

SpecTx == InitTx /\ [][NextTx]_vars

(* ------------------------- merges of three caches ---------------------- *)

\* The caches of a merge experiment: the operands p, a and b, which are only
\* read, and three working caches: p_a_b starts as a clone of p and has a and
\* then b merged into it; a_b starts as a clone of a and has b merged into
\* it; p_ab starts as a clone of p and has a_b merged into it.
MergeCell == {"p", "a", "b", "p_a_b", "p_b_a", "a_b", "p_ab"}

\* the caches the operands are drawn from: new() after one update_writes
Operands == {update_writes(new, s[1], s[2], s[3]) : s \in Snapshots}

\* pc of a merge experiment: the number of merges done on each working cache
InitMerge ==
    /\ \E P \in Operands, A \in Operands, B \in Operands :
            heap = [c \in MergeCell |->
                        CASE c \in {"p", "p_a_b", "p_b_a", "p_ab"} -> Clone(P)
                          [] c \in {"a", "a_b"} -> Clone(A)
                          [] c = "b" -> B]
    /\ pc = [p_a_b |-> 0, p_b_a |-> 0, a_b |-> 0, p_ab |-> 0]
    /\ href = [c \in MergeCell |-> c]
    /\ last = [op |-> "new", target |-> "p", res |-> "Ok"]
    /\ pre = new
    /\ cloned_from = [b \in Binding |-> "none"]
    /\ seeds_ok = [b \in Binding |-> 0]
    /\ touched = [b \in Binding |-> FALSE]
    /\ fetches = [b \in Binding |-> [c \in ReadCell |-> 0]]
    /\ steps = 0
    /\ api = "none"
    /\ scopes = <<>>
    /\ caller_before = new
    /\ result = [kind |-> "none"]
    /\ resources = 0
    /\ calls = 0
    /\ memory = EmptyMemory

\* t.update_writes_from_other(&o), as the n-th merge into t
MergeInto(t, o, n) ==
    /\ pc[t] = n - 1
    /\ heap' = [heap EXCEPT ![href[t]] = update_writes_from_other(cache_of(t), cache_of(o))]
    /\ pc' = [pc EXCEPT ![t] = n]
    /\ UNCHANGED <<memory, href, last, pre, cachevars, api, scopes, caller_before, result,
                   resources, calls>>

\* p_a_b.update_writes_from_other(&a)
MergeAIntoP == MergeInto("p_a_b", "a", 1)

\* p_a_b.update_writes_from_other(&b), after a
MergeBIntoP == MergeInto("p_a_b", "b", 2)

\* p_b_a.update_writes_from_other(&b)
MergeBIntoPFirst == MergeInto("p_b_a", "b", 1)

\* p_b_a.update_writes_from_other(&a), after b
MergeAIntoPSecond == MergeInto("p_b_a", "a", 2)

\* a_b.update_writes_from_other(&b)
MergeBIntoA == MergeInto("a_b", "b", 1)

\* p_ab.update_writes_from_other(&a_b), once a_b holds a overlaid with b
MergeABIntoP == pc["a_b"] = 1 /\ MergeInto("p_ab", "a_b", 1)

NextMerge ==
    \/ MergeAIntoP
    \/ MergeBIntoP
    \/ MergeBIntoPFirst
    \/ MergeAIntoPSecond
    \/ MergeBIntoA
    \/ MergeABIntoP

SpecMerge == InitMerge /\ [][NextMerge]_vars

(* ----------------------- decoding syscall arguments -------------------- *)

\* a VM whose memory segment holds any mix of integers, relocatables and
\* cells never inserted
InitUtils ==
    /\ memory \in [VmAddr -> MemValue]
    /\ heap = [c \in Cell |-> new]
    /\ href = [b \in Binding |-> own_cell(b)]
    /\ cloned_from = [b \in Binding |-> "none"]
    /\ last = [op |-> "new", target |-> "vm", res |-> "Ok"]
    /\ pre = new
    /\ seeds_ok = [b \in Binding |-> 0]
    /\ touched = [b \in Binding |-> FALSE]
    /\ fetches = [b \in Binding |-> [c \in ReadCell |-> 0]]
    /\ steps = 0
    /\ pc = "idle"
    /\ api = "none"
    /\ scopes = <<>>
    /\ caller_before = new
    /\ result = [kind |-> "none"]
    /\ resources = 0
    /\ calls = 0

\* a call of a helper: b is the BigInt passed (bigint_to_usize), addr and
\* size the address and the length passed, r what the helper returned
Decode(op, b, addr, size, r) ==
    /\ last' = [op |-> op, target |-> "vm", res |-> r.res, val |-> r.val,
                bigint |-> b, addr |-> addr, size |-> size]
    /\ UNCHANGED <<memory, heap, href, pre, cachevars, txvars>>

GetInteger(a) == Decode("get_integer", 0, a, 1, get_integer(memory, a))

GetBigInt(a) == Decode("get_big_int", 0, a, 1, get_big_int(memory, a))

GetRelocatable(a) == Decode("get_relocatable", 0, a, 1, get_relocatable(memory, a))

BigintToUsize(b) == Decode("bigint_to_usize", b, 0, 0, bigint_to_usize(b))

GetIntegerRange(a, size) ==
    Decode("get_integer_range", 0, a, size, get_integer_range(memory, a, size))

NextUtils ==
    \/ \E a \in VmAddr : GetInteger(a)
    \/ \E a \in VmAddr : GetBigInt(a)
    \/ \E a \in VmAddr : GetRelocatable(a)
    \/ \E b \in IntValue : BigintToUsize(b)
    \/ \E a \in VmAddr, size \in 0 .. MemSize : GetIntegerRange(a, size)

SpecUtils == InitUtils /\ [][NextUtils]_vars

(* --------------------------- record_initial ---------------------------- *)

\* t.record_initial(c, v): an observed value v of cell c is offered to the
\* cache on t, whatever the cache holds
RecordInitial(t, c, v) ==
    /\ steps < MaxSteps
    /\ heap' = [heap EXCEPT ![href[t]] = record_initial_cell(cache_of(t), c, v)]
    /\ last' = [op |-> "record_initial", target |-> t, res |-> "Ok",
                cell |-> c, val |-> <<v>>]
    /\ pre' = cache_of(t)
    /\ steps' = steps + 1
    /\ UNCHANGED <<memory, href, cloned_from, seeds_ok, touched, fetches, txvars>>

\* record_initial and update_writes in any order on the two caches
NextRecord ==
    \/ \E t \in Binding, c \in ReadCell : \E v \in CellValue(c) : RecordInitial(t, c, v)
    \/ \E t \in Binding, s \in Snapshots : UpdateWrites(t, s)

SpecRecord == Init /\ [][NextRecord]_vars

(* ------------------------------ claims --------------------------------- *)

\* what the reader holds for a cell, and what the cache holds for it
reader_at(c) ==
    CASE c[1] = "class_hash" -> reader_class_hash_at(c[2])
      [] c[1] = "nonce" -> reader_nonce_at(c[2])
      [] c[1] = "storage" -> reader_storage_at(c[2])

\* the binding that is not b
OtherBinding(b) == CHOOSE o \in Binding : o # b

\* map `after` is `before` overlaid with `child`: every key of child has
\* child's value, every key only in before keeps its value, no other key
Overlaid(after, before, child) ==
    /\ \A k \in DOMAIN child : k \in DOMAIN after /\ after[k] = child[k]
    /\ \A k \in (DOMAIN before) \ (DOMAIN child) :
            k \in DOMAIN after /\ after[k] = before[k]
    /\ \A k \in DOMAIN after : k \in DOMAIN before \/ k \in DOMAIN child

\* C1: after parent.update_writes_from_other(child), each of the three write
\* mappings of the parent is its former content overlaid with the child's:
\* child's value on every key of the child, the parent's former value on
\* every key only the parent had, and no other key.
C1_MergeOverlay ==
    last.op = "update_writes_from_other" =>
        LET parent == cache_of(last.target)
            child  == cache_of(OtherBinding(last.target))
        IN  /\ Overlaid(parent.class_hash_writes, pre.class_hash_writes,
                        child.class_hash_writes)
            /\ Overlaid(parent.nonce_writes, pre.nonce_writes, child.nonce_writes)
            /\ Overlaid(parent.storage_writes, pre.storage_writes,
                        child.storage_writes)

\* a merge in which a key of the parent collided with a different value of
\* the child, and another key was held by the parent only
C1_Witness ==
    /\ last.op = "update_writes_from_other"
    /\ LET parent == cache_of(last.target)
           child  == cache_of(OtherBinding(last.target))
       IN  /\ \E k \in DOMAIN pre.class_hash_writes \cap DOMAIN child.class_hash_writes :
                /\ pre.class_hash_writes[k] # child.class_hash_writes[k]
                /\ parent.class_hash_writes[k] = child.class_hash_writes[k]
           /\ \E k \in DOMAIN pre.nonce_writes :
                /\ k \notin DOMAIN child.nonce_writes
                /\ parent.nonce_writes[k] = pre.nonce_writes[k]

\* the value a lookup must give: the written one, else the initial one, else None
Shadowed(writes, initial, k) ==
    IF k \in DOMAIN writes THEN <<writes[k]>>
    ELSE IF k \in DOMAIN initial THEN <<initial[k]>>
    ELSE <<>>

\* C2: in every reachable state and for each of the three quantities, get
\* returns the write-mapping value if the key is written, else the
\* initial-mapping value if the key is there, else None.
C2_WriteShadowsInitial ==
    \A b \in Binding :
        LET c == cache_of(b) IN
        /\ \A a \in Address :
            /\ get_class_hash(c, a) =
                    Shadowed(c.class_hash_writes, c.class_hash_initial_values, a)
            /\ get_nonce(c, a) = Shadowed(c.nonce_writes, c.nonce_initial_values, a)
        /\ \A e \in StorageEntry :
            get_storage(c, e) = Shadowed(c.storage_writes, c.storage_initial_values, e)

\* a nonce was read (initial value 0) and then written as 1: the lookup gives 1
C2_Witness ==
    \E b \in Binding : \E a \in Address :
        LET c == cache_of(b) IN
        /\ a \in DOMAIN c.nonce_initial_values
        /\ a \in DOMAIN c.nonce_writes
        /\ c.nonce_initial_values[a] = 0
        /\ c.nonce_writes[a] = 1
        /\ get_nonce(c, a) = <<1>>

\* C3: every read, write, seed or merge applied to a clone leaves the cache
\* it was cloned from as it was, in all six mappings, and so every get on it.
C3_CloneIsolation ==
    [][\A d \in Binding :
        (cloned_from[d] # "none" /\ last'.target = d /\ last'.op # "clone")
        => LET s == cloned_from[d] IN
            /\ heap'[href'[s]] = heap[href[s]]
            /\ \A a \in Address :
                /\ get_class_hash(heap'[href'[s]], a) = get_class_hash(heap[href[s]], a)
                /\ get_nonce(heap'[href'[s]], a) = get_nonce(heap[href[s]], a)
            /\ \A e \in StorageEntry :
                get_storage(heap'[href'[s]], e) = get_storage(heap[href[s]], e)
      ]_vars

\* storage cell (1, 1) was 5 when the clone was taken and 9 was written on
\* the clone only: the original still reads 5
C3_Witness ==
    /\ cloned_from["other_state_cache"] = "state_cache"
    /\ last.target = "other_state_cache"
    /\ last.op = "update_writes"
    /\ get_storage(pre, <<1, 1>>) = <<5>>
    /\ get_storage(cache_of("other_state_cache"), <<1, 1>>) = <<9>>
    /\ get_storage(cache_of("state_cache"), <<1, 1>>) = <<5>>

\* the six mappings of a StateCache
Mappings ==
    {"class_hash_initial_values", "nonce_initial_values", "storage_initial_values",
     "class_hash_writes", "nonce_writes", "storage_writes"}

\* C7: set_initial_values on a cache in which any of the six mappings is
\* non-empty returns StateCacheAlreadyInitialized and changes no mapping.
C7_SeedRejected ==
    (last.op = "set_initial_values" /\ \E f \in Mappings : DOMAIN pre[f] # {})
    => /\ last.res = "StateCacheAlreadyInitialized"
       /\ \A f \in Mappings : cache_of(last.target)[f] = pre[f]

\* a seed rejected on a cache whose only entry is a recorded initial value
C7_Witness ==
    /\ last.op = "set_initial_values"
    /\ last.res = "StateCacheAlreadyInitialized"
    /\ DOMAIN pre.storage_initial_values # {}
    /\ \A f \in Mappings \ {"storage_initial_values"} : DOMAIN pre[f] = {}

\* a set_initial_values call on a cache whose six mappings were all empty
SeedOfNew ==
    /\ last.op = "set_initial_values"
    /\ \A f \in Mappings : DOMAIN pre[f] = {}

\* C8 as claimed: a seed of a new cache succeeds and makes each of the three
\* initial mappings and each of the three write mappings equal to the
\* supplied map.
C8_SeedPopulatesSix ==
    SeedOfNew =>
        /\ last.res = "Ok"
        /\ LET c == cache_of(last.target) IN
            /\ c.class_hash_writes = last.args[1]
            /\ c.nonce_writes = last.args[2]
            /\ c.storage_writes = last.args[3]
            /\ c.class_hash_initial_values = last.args[1]
            /\ c.nonce_initial_values = last.args[2]
            /\ c.storage_initial_values = last.args[3]

\* C8: a seed of a new cache succeeds and makes each of the three write
\* mappings equal to the supplied map; the three initial mappings stay empty.
C8_SeedPopulatesWrites ==
    SeedOfNew =>
        /\ last.res = "Ok"
        /\ LET c == cache_of(last.target) IN
            /\ c.class_hash_writes = last.args[1]
            /\ c.nonce_writes = last.args[2]
            /\ c.storage_writes = last.args[3]
            /\ DOMAIN c.class_hash_initial_values = {}
            /\ DOMAIN c.nonce_initial_values = {}
            /\ DOMAIN c.storage_initial_values = {}

\* a successful seed of a new cache with an entry in each of the three maps
C8_Witness ==
    /\ last.op = "set_initial_values"
    /\ last.res = "Ok"
    /\ \A f \in Mappings : DOMAIN pre[f] = {}
    /\ last.args = <<Single(1, "pedersen"), Single(1, 0), Single(<<1, 1>>, 5)>>
    /\ LET c == cache_of(last.target) IN
        /\ c.class_hash_writes = Single(1, "pedersen")
        /\ c.nonce_writes = Single(1, 0)
        /\ c.storage_writes = Single(<<1, 1>>, 5)
        /\ DOMAIN c.class_hash_initial_values = {}

\* C9 as claimed: at most one set_initial_values call on a cache returns Ok,
\* and none returns Ok after a recording read or a write.
C9_SeedAtMostOnce ==
    /\ \A b \in Binding : seeds_ok[b] <= 1
    /\ (last.op = "set_initial_values" /\ last.res = "Ok") => ~touched[last.target]

\* a cache holds an entry in one of its six mappings
HoldsEntry(c) == \E f \in Mappings : DOMAIN c[f] # {}

\* C9: a cache that holds an entry holds one ever after, and every
\* set_initial_values call on it returns StateCacheAlreadyInitialized and
\* leaves it unchanged, so a seed never overwrites an entry; a call returns
\* Ok only on a cache with six empty mappings (a seed of three empty maps
\* leaves it so, and a later seed succeeds again).
C9_SeedNeverOverwrites ==
    [][\A b \in Binding :
        (HoldsEntry(heap[href[b]]) /\ ~(last'.op = "clone" /\ last'.target = b))
        => /\ HoldsEntry(heap'[href'[b]])
           /\ (last'.op = "set_initial_values" /\ last'.target = b)
                => /\ last'.res = "StateCacheAlreadyInitialized"
                   /\ heap'[href'[b]] = heap[href[b]]
      ]_vars

\* a seed rejected on a cache that an earlier seed had populated
C9_Witness ==
    /\ last.op = "set_initial_values"
    /\ last.res = "StateCacheAlreadyInitialized"
    /\ seeds_ok[last.target] = 1
    /\ ~touched[last.target]
    /\ HoldsEntry(pre)

\* C10: get_accessed_contract_addresses returns exactly the addresses that
\* are a key of the class-hash writes, a key of the nonce writes, or the
\* address of a key of the storage writes.
C10_AccessedAddresses ==
    \A b \in Binding :
        LET c == cache_of(b) IN
        /\ get_accessed_contract_addresses(c) \subseteq Address
        /\ \A a \in Address :
            a \in get_accessed_contract_addresses(c)
            <=> \/ a \in DOMAIN c.class_hash_writes
                \/ a \in DOMAIN c.nonce_writes
                \/ \E k \in StorageKey : <<a, k>> \in DOMAIN c.storage_writes

\* address 2 was touched by a storage write only and is reported; address 1
\* is in an initial mapping only and is not
C10_Witness ==
    \E b \in Binding :
        LET c == cache_of(b) IN
        /\ <<2, 1>> \in DOMAIN c.storage_writes
        /\ 2 \notin DOMAIN c.class_hash_writes
        /\ 2 \notin DOMAIN c.nonce_writes
        /\ 1 \in DOMAIN c.nonce_initial_values
        /\ get_accessed_contract_addresses(c) = {2}

\* the addresses that occur in a triple of supplied maps
AddressesOf(s) ==
    (DOMAIN s[1]) \cup (DOMAIN s[2]) \cup {e[1] : e \in DOMAIN s[3]}

\* C11: after a successful set_initial_values on a new cache the three write
\* mappings are the three supplied maps, and get_accessed_contract_addresses
\* returns exactly the addresses that occur in them, although nothing else
\* has written to the cache.
C11_SeedAccessed ==
    (last.op = "set_initial_values" /\ last.res = "Ok")
    => LET c == cache_of(last.target) IN
        /\ pre = new
        /\ <<c.class_hash_writes, c.nonce_writes, c.storage_writes>> = last.args
        /\ get_accessed_contract_addresses(c) = AddressesOf(last.args)

\* a seed whose only entry is the nonce of address 2: address 2 is the one
\* accessed address
C11_Witness ==
    /\ last.op = "set_initial_values"
    /\ last.res = "Ok"
    /\ last.args = <<EmptyMap, Single(2, 1), EmptyMap>>
    /\ get_nonce(cache_of(last.target), 2) = <<1>>
    /\ get_accessed_contract_addresses(cache_of(last.target)) = {2}

\* the three initial mappings of a StateCache
InitialMappings ==
    {"class_hash_initial_values", "nonce_initial_values", "storage_initial_values"}

\* C12: update_writes_from_other leaves the three initial mappings of the
\* parent as they were and leaves the other cache unchanged in all six
\* mappings, whatever initial values and writes the other cache holds.
C12_MergeLeavesInitial ==
    last.op = "update_writes_from_other"
    => /\ \A f \in InitialMappings : cache_of(last.target)[f] = pre[f]
       /\ \A f \in Mappings : cache_of(OtherBinding(last.target))[f] = last.other[f]

\* the parent had read storage cell (1, 1) as 5 and the child had written 9
\* to it: after the merge the parent reads 9 and its initial value is still 5
C12_Witness ==
    /\ last.op = "update_writes_from_other"
    /\ get(pre.storage_initial_values, <<1, 1>>) = <<5>>
    /\ get(last.other.storage_writes, <<1, 1>>) = <<9>>
    /\ get_storage(cache_of(last.target), <<1, 1>>) = <<9>>
    /\ get(cache_of(last.target).storage_initial_values, <<1, 1>>) = <<5>>

\* the three write mappings of a StateCache
WriteMappings == {"class_hash_writes", "nonce_writes", "storage_writes"}

\* every entry of the effects eff is what a lookup in cache c returns
Visible(c, eff) ==
    /\ \A a \in DOMAIN eff[1] : get_class_hash(c, a) = <<eff[1][a]>>
    /\ \A a \in DOMAIN eff[2] : get_nonce(c, a) = <<eff[2][a]>>
    /\ \A e \in DOMAIN eff[3] : get_storage(c, e) = <<eff[3][e]>>

\* C4: while and after estimate_fee, simulate_tx or call_contract runs a
\* transaction, succeeding or failing, the caller's state is what it was at
\* the call; after a successful execute_tx every write of the transaction
\* is visible in the caller's state.
C4_FacadeIsolation ==
    /\ (pc \in {"running", "done"} /\ api \in {"estimate_fee", "simulate_tx", "call_contract"})
        => heap[href["state"]] = caller_before
    /\ (pc = "done" /\ api = "execute_tx" /\ result.kind = "Ok")
        => Visible(heap[href["state"]], scopes[1].effects)

\* an execute_tx left a write in the caller's state, and a later simulate_tx
\* that succeeded with a write of its own left that state as it was
C4_Witness ==
    /\ pc = "done"
    /\ api = "simulate_tx"
    /\ result.kind = "Ok"
    /\ scopes[1].effects # NoWrites
    /\ caller_before # new
    /\ heap[href["state"]] = caller_before
    /\ heap[href["state_copy"]] # caller_before

\* C5: a nested call that reverts leaves its parent's cache, in all six
\* mappings, as it was when the nested call was invoked; the parent does not
\* change while the nested call runs, and a nested call that succeeds is
\* merged as a whole.
C5_RevertLeavesParent ==
    /\ \A i \in 2..Len(scopes) : heap[scopes[i - 1].cell] = scopes[i].snap
    /\ last.op = "nested_revert"
        => \A f \in Mappings : heap[top.cell][f] = pre[f]
    /\ last.op = "nested_succeed"
        => LET child == heap[top.cell + 1] IN
            \A f \in WriteMappings : Overlaid(heap[top.cell][f], pre[f], child[f])

\* a nested call wrote 9 to storage cell (2, 1) and reverted: the parent
\* holds no value for that cell
C5_Witness ==
    /\ last.op = "nested_revert"
    /\ get_storage(heap[top.cell + 1], <<2, 1>>) = <<9>>
    /\ get_storage(heap[top.cell], <<2, 1>>) = <<>>
    /\ get_accessed_contract_addresses(heap[top.cell]) # {}

\* every cell that both effects e1 and e2 write reads in cache c as e2 wrote it
LaterWins(c, e1, e2) ==
    /\ \A a \in DOMAIN e1[1] \cap DOMAIN e2[1] : get_class_hash(c, a) = <<e2[1][a]>>
    /\ \A a \in DOMAIN e1[2] \cap DOMAIN e2[2] : get_nonce(c, a) = <<e2[2][a]>>
    /\ \A e \in DOMAIN e1[3] \cap DOMAIN e2[3] : get_storage(c, e) = <<e2[3][e]>>

\* C13: nested calls are merged in the order they were invoked: nothing is
\* merged into an entry point while a call it made is open, so each call is
\* merged before the next is invoked; and when a call has been merged, every
\* cell it wrote that an earlier merged call also wrote holds the later
\* call's value in the parent, and the merged writes are the earlier ones
\* overlaid with the later ones.
C13_MergeOrder ==
    /\ \A i \in 2..Len(scopes) :
            heap[scopes[i - 1].cell] = scopes[i].snap
    /\ last.op = "nested_succeed"
        => /\ LaterWins(heap[top.cell], last.earlier, last.child)
           /\ \A n \in 1..3 : Overlaid(top.merged[n], last.earlier[n], last.child[n])

\* two nested calls were merged: the first wrote 5 to storage cell (1, 1), the
\* second wrote 9 to it, and the parent reads 9
C13_Witness ==
    /\ last.op = "nested_succeed"
    /\ get(last.earlier[3], <<1, 1>>) = <<5>>
    /\ get(last.child[3], <<1, 1>>) = <<9>>
    /\ get_storage(heap[top.cell], <<1, 1>>) = <<9>>

\* C14: for all caches p, a and b, merging a and then b into p leaves the
\* same three write mappings as merging b into a and the result into p once;
\* on a key that both a and b write, the value of b is the final one; the
\* operands are left as they were.
C14_MergeAssociative ==
    (pc["p_a_b"] = 2 /\ pc["p_ab"] = 1)
    => /\ \A f \in WriteMappings :
            /\ heap["p_a_b"][f] = heap["p_ab"][f]
            /\ \A k \in DOMAIN heap["a"][f] \cap DOMAIN heap["b"][f] :
                    heap["p_a_b"][f][k] = heap["b"][f][k]
       /\ heap["a_b"] = update_writes_from_other(heap["a"], heap["b"])
       /\ heap["p_ab"] = update_writes_from_other(heap["p"], heap["a_b"])

\* p, a and b all write the nonce of address 1, a and b differently, and p
\* alone writes a class hash: both ways give b's nonce and keep p's class hash
C14_Witness ==
    /\ pc["p_a_b"] = 2
    /\ pc["p_ab"] = 1
    /\ get_nonce(heap["p"], 1) = <<0>>
    /\ get_nonce(heap["a"], 1) = <<0>>
    /\ get_nonce(heap["b"], 1) = <<1>>
    /\ get_class_hash(heap["p"], 1) = <<"pedersen">>
    /\ get_nonce(heap["p_a_b"], 1) = <<1>>
    /\ get_nonce(heap["p_ab"], 1) = <<1>>
    /\ get_class_hash(heap["p_ab"], 1) = <<"pedersen">>

\* the write mapping and the initial mapping that hold the cells of a quantity
WritesOf(self, c) ==
    CASE c[1] = "class_hash" -> self.class_hash_writes
      [] c[1] = "nonce" -> self.nonce_writes
      [] c[1] = "storage" -> self.storage_writes

InitialOf(self, c) ==
    CASE c[1] = "class_hash" -> self.class_hash_initial_values
      [] c[1] = "nonce" -> self.nonce_initial_values
      [] c[1] = "storage" -> self.storage_initial_values

\* C15 as claimed: a read of a cell that was not written looks in the cache
\* first; on a miss it returns the value the reader holds and records it as
\* the initial value; for every cell the reader was asked once if the cell
\* has an initial value and never otherwise, so no read asks it a second
\* time.
C15_ReadThroughEveryCell ==
    /\ (last.op \in {"get_class_hash_at", "get_nonce_at", "get_storage_at"}
            /\ last.cell[2] \notin DOMAIN WritesOf(pre, last.cell))
        => LET c == last.cell
               k == c[2]
               now == cache_of(last.target)
           IN  IF k \in DOMAIN InitialOf(pre, c)
               THEN /\ ~last.fetch
                    /\ last.val = <<InitialOf(pre, c)[k]>>
                    /\ now = pre
               ELSE /\ last.fetch
                    /\ last.res = "Ok"
                    /\ last.val # <<>>
                    /\ InitialOf(now, c) = extend(InitialOf(pre, c), Single(k, last.val[1]))
    /\ \A b \in Binding : \A c \in ReadCell :
            fetches[b][c] = IF c[2] \in DOMAIN InitialOf(cache_of(b), c) THEN 1 ELSE 0

\* C15: a read of a cell that was not written looks in the cache first: if an
\* initial value is recorded it is returned, the reader is not asked and the
\* cache stays as it was; otherwise the reader is asked. When the reader
\* holds a value, it is returned and recorded as the initial value, and the
\* reader was asked once for the cell if it has an initial value and never
\* otherwise. When the reader holds none (the class hash of an address that
\* is not deployed), the read is NotDeployed, the cache stays as it was and
\* no initial value is ever recorded, so each such read asks the reader.
C15_ReadThroughOnce ==
    /\ (last.op \in {"get_class_hash_at", "get_nonce_at", "get_storage_at"}
            /\ last.cell[2] \notin DOMAIN WritesOf(pre, last.cell))
        => LET c == last.cell
               k == c[2]
               now == cache_of(last.target)
           IN  IF k \in DOMAIN InitialOf(pre, c)
               THEN /\ ~last.fetch
                    /\ last.val = <<InitialOf(pre, c)[k]>>
                    /\ now = pre
               ELSE /\ last.fetch
                    /\ last.val = reader_at(c)
                    /\ \A f \in WriteMappings : now[f] = pre[f]
                    /\ reader_at(c) # <<>>
                        => /\ last.res = "Ok"
                           /\ InitialOf(now, c) = extend(InitialOf(pre, c), Single(k, reader_at(c)[1]))
                    /\ reader_at(c) = <<>>
                        => /\ last.res = "NotDeployed"
                           /\ now = pre
                           /\ fetches[last.target][c] >= 1
    /\ \A b \in Binding : \A c \in ReadCell :
            IF reader_at(c) # <<>>
            THEN fetches[b][c] = IF c[2] \in DOMAIN InitialOf(cache_of(b), c) THEN 1 ELSE 0
            ELSE c[2] \notin DOMAIN InitialOf(cache_of(b), c)

\* the second read of storage cell (1, 1): it returns the 5 the first read
\* had fetched, and the reader was asked once
C15_Witness ==
    /\ last.op = "get_storage_at"
    /\ last.cell = <<"storage", <<1, 1>>>>
    /\ ~last.fetch
    /\ last.val = <<5>>
    /\ get(pre.storage_initial_values, <<1, 1>>) = <<5>>
    /\ fetches[last.target][last.cell] = 1

\* C16: record_initial never changes a write mapping. When the key already
\* has an initial value the cache stays as it was, whatever value is offered;
\* otherwise the offered value becomes the initial value of the key and the
\* other initial values stay. So wherever a cell has an initial value, a
\* further record_initial of any value changes nothing.
C16_RecordInitialFirstWins ==
    /\ last.op = "record_initial"
        => LET c == last.cell
               k == c[2]
               now == cache_of(last.target)
           IN  /\ \A f \in WriteMappings : now[f] = pre[f]
               /\ IF k \in DOMAIN InitialOf(pre, c)
                  THEN now = pre
                  ELSE /\ InitialOf(now, c) = extend(InitialOf(pre, c), Single(k, last.val[1]))
                       /\ \A d \in ReadCell :
                            d[1] # c[1] => InitialOf(now, d) = InitialOf(pre, d)
    /\ \A b \in Binding : \A c \in ReadCell :
            c[2] \in DOMAIN InitialOf(cache_of(b), c)
            => \A v \in CellValue(c) :
                    record_initial_cell(cache_of(b), c, v) = cache_of(b)

\* nonce 0 was recorded for address 1, whose nonce has also been written;
\* record_initial of nonce 1 for it leaves the 0 and the write
C16_Witness ==
    /\ last.op = "record_initial"
    /\ last.cell = <<"nonce", 1>>
    /\ last.val = <<1>>
    /\ get(pre.nonce_initial_values, 1) = <<0>>
    /\ get(pre.nonce_writes, 1) = <<1>>
    /\ cache_of(last.target) = pre

\* the cell read by the last helper call holds an integer / a relocatable
HoldsInt(a) == a \in VmAddr /\ memory[a].kind = "int"

HoldsRel(a) == a \in VmAddr /\ memory[a].kind = "rel"

\* C17: a helper whose VM read fails (the cell holds nothing or a value of
\* the other type) returns SegmentationFault, whatever a width check would
\* say; get_integer and bigint_to_usize return the value when it is in
\* 0..=usize::MAX and BigintToUsizeFail otherwise; get_big_int,
\* get_relocatable and get_integer_range return what the memory holds and
\* never BigintToUsizeFail; get_integer_range returns the size values at
\* addr, addr + 1, ... in this order, or SegmentationFault when one of these
\* cells does not hold an integer.
C17_Decoding ==
    LET a == last.addr
        fits(v) == 0 <= v /\ v <= usize_max
    IN  /\ last.op = "get_integer"
            => IF ~HoldsInt(a) THEN last.res = "SegmentationFault"
               ELSE IF fits(memory[a].val)
               THEN last.res = "Ok" /\ last.val = memory[a].val
               ELSE last.res = "BigintToUsizeFail"
        /\ last.op = "bigint_to_usize"
            => IF fits(last.bigint)
               THEN last.res = "Ok" /\ last.val = last.bigint
               ELSE last.res = "BigintToUsizeFail"
        /\ last.op = "get_big_int"
            => IF HoldsInt(a)
               THEN last.res = "Ok" /\ last.val = memory[a].val
               ELSE last.res = "SegmentationFault"
        /\ last.op = "get_relocatable"
            => IF HoldsRel(a)
               THEN last.res = "Ok" /\ last.val = memory[a].val
               ELSE last.res = "SegmentationFault"
        /\ last.op = "get_integer_range"
            => IF \A i \in 0 .. last.size - 1 : HoldsInt(a + i)
               THEN /\ last.res = "Ok"
                    /\ Len(last.val) = last.size
                    /\ \A i \in 1 .. last.size : last.val[i] = memory[a + i - 1].val
               ELSE last.res = "SegmentationFault"

\* get_integer of a cell that holds the first value beyond usize::MAX is an
\* overflow, while the cell next to it holds a relocatable, whose read as an
\* integer is a SegmentationFault
C17_Witness ==
    /\ last.op = "get_integer"
    /\ last.addr = 0
    /\ memory[0] = [kind |-> "int", val |-> usize_max + 1]
    /\ last.res = "BigintToUsizeFail"
    /\ memory[1].kind = "rel"
    /\ get_integer(memory, 1).res = "SegmentationFault"
    /\ get_integer_range(memory, 0, 1) = [res |-> "Ok", val |-> <<usize_max + 1>>]

\* the reader was never asked on behalf of the cache on b or of a cache it
\* was cloned from: the cache is new() after update_writes,
\* update_writes_from_other, set_initial_values and clones only
OnlyCacheMethods(b) == \A c \in ReadCell : fetches[b][c] = 0

\* C21: update_writes, update_writes_from_other and set_initial_values leave
\* the three initial mappings of the cache as they were. A cache that came
\* from new() by these methods alone has three empty initial mappings, and
\* its get_class_hash, get_nonce and get_storage return exactly the entries
\* of the corresponding write mapping.
C21_InitialUntouched ==
    /\ last.op \in {"update_writes", "update_writes_from_other", "set_initial_values"}
        => \A f \in InitialMappings : cache_of(last.target)[f] = pre[f]
    /\ \A b \in Binding :
            OnlyCacheMethods(b)
            => /\ \A f \in InitialMappings : cache_of(b)[f] = EmptyMap
               /\ \A a \in Address :
                    /\ get_class_hash(cache_of(b), a) = get(cache_of(b).class_hash_writes, a)
                    /\ get_nonce(cache_of(b), a) = get(cache_of(b).nonce_writes, a)
               /\ \A e \in StorageEntry :
                    get_storage(cache_of(b), e) = get(cache_of(b).storage_writes, e)

\* a seeded cache into which a cache with another write was merged: its
\* initial mappings are empty, a written nonce is returned and a class hash
\* never written is None
C21_Witness ==
    /\ last.op = "update_writes_from_other"
    /\ OnlyCacheMethods(last.target)
    /\ seeds_ok[last.target] = 1
    /\ cache_of(last.target) # pre
    /\ \A f \in InitialMappings : cache_of(last.target)[f] = EmptyMap
    /\ get_nonce(cache_of(last.target), 1) = <<0>>
    /\ get_class_hash(cache_of(last.target), 2) = <<>>
    /\ get_storage(cache_of(last.target), <<2, 1>>) = <<9>>

\* C22: update_writes_from_other(other) leaves the cache it is called on as
\* update_writes(other.class_hash_writes, other.nonce_writes,
\* other.storage_writes) called on the same cache would; a successful
\* set_initial_values(a, b, c) was called on an empty cache and leaves it as
\* update_writes(a, b, c) called on an empty cache would.
C22_MergeIsUpdate ==
    /\ last.op = "update_writes_from_other"
        => cache_of(last.target) =
                update_writes(pre, last.other.class_hash_writes,
                              last.other.nonce_writes, last.other.storage_writes)
    /\ (last.op = "set_initial_values" /\ last.res = "Ok")
        => /\ pre = new
           /\ cache_of(last.target) =
                update_writes(new, last.args[1], last.args[2], last.args[3])

\* a seeded cache is merged into a cache that wrote other values for the
\* same address: the result is the one of update_writes with the seeded writes
C22_Witness ==
    /\ last.op = "update_writes_from_other"
    /\ seeds_ok[OtherBinding(last.target)] = 1
    /\ get_nonce(pre, 1) = <<0>>
    /\ get_class_hash(pre, 1) = <<"pedersen">>
    /\ get_nonce(last.other, 1) = <<1>>
    /\ get_nonce(cache_of(last.target), 1) = <<1>>
    /\ get_class_hash(cache_of(last.target), 1) = <<"sha-3">>
    /\ cache_of(last.target) =
            update_writes(pre, last.other.class_hash_writes,
                          last.other.nonce_writes, last.other.storage_writes)

\* the keys of write mapping f that both a and b write
WrittenByBoth(f) == DOMAIN heap["a"][f] \cap DOMAIN heap["b"][f]

\* C23: for all caches p, a and b, merging a and then b into p and merging b
\* and then a into p give write mappings with the same keys and the same
\* value on every key that a and b do not both write; when a and b share no
\* key in any of the three write mappings the two parents are the same cache.
C23_DisjointMergesCommute ==
    (pc["p_a_b"] = 2 /\ pc["p_b_a"] = 2)
    => /\ \A f \in WriteMappings :
            /\ DOMAIN heap["p_a_b"][f] = DOMAIN heap["p_b_a"][f]
            /\ \A k \in DOMAIN heap["p_a_b"][f] \ WrittenByBoth(f) :
                    heap["p_a_b"][f][k] = heap["p_b_a"][f][k]
       /\ (\A f \in WriteMappings : WrittenByBoth(f) = {})
            => heap["p_a_b"] = heap["p_b_a"]

\* a writes the nonce of address 1, which p wrote too, b writes storage cell
\* (2, 1), and they share no key: in both orders the parent holds a's nonce,
\* b's storage value and its own class hash
C23_Witness ==
    /\ pc["p_a_b"] = 2
    /\ pc["p_b_a"] = 2
    /\ \A f \in WriteMappings : WrittenByBoth(f) = {}
    /\ get_nonce(heap["p"], 1) = <<0>>
    /\ get_nonce(heap["a"], 1) = <<1>>
    /\ get_storage(heap["b"], <<2, 1>>) = <<9>>
    /\ get_nonce(heap["p_b_a"], 1) = <<1>>
    /\ get_storage(heap["p_a_b"], <<2, 1>>) = <<9>>
    /\ get_class_hash(heap["p_b_a"], 1) = <<"pedersen">>
    /\ heap["p_a_b"] = heap["p_b_a"]

\* C18: call_contract returns the retdata of the execution's call_info when
\* the execution succeeds with a call_info, the error "Empty CallInfo." when
\* it succeeds without one, and the execution's error when it fails; in all
\* three cases the state passed in is as it was at the call.
C18_CallContractResult ==
    (pc = "done" /\ api = "call_contract")
    => /\ (last.exec.ok /\ last.exec.info.call_info # <<>>)
            => result = [kind |-> "Ok", retdata |-> last.exec.info.call_info[1]]
       /\ (last.exec.ok /\ last.exec.info.call_info = <<>>)
            => result = [kind |-> "Err", error |-> "Empty CallInfo."]
       /\ ~last.exec.ok => result = [kind |-> "Err", error |-> last.exec.error]
       /\ heap[href["state"]] = caller_before

\* a call_contract whose execution wrote to the state and succeeded with no
\* call_info, on a caller's state that an earlier transaction had written
C18_Witness ==
    /\ pc = "done"
    /\ api = "call_contract"
    /\ last.exec.ok
    /\ last.exec.info.call_info = <<>>
    /\ result.error = "Empty CallInfo."
    /\ scopes[1].effects # NoWrites
    /\ caller_before # new
    /\ heap[href["state"]] = caller_before

====
